---- MODULE Spec2Model ----
(***************************************************************************)
(* A model of the Wordle game object of pywordle.                          *)
(*                                                                         *)
(*   Spec        the packaged class, src/pywordle/wordle.py: construction, *)
(*               make_guess called directly, and the play() loop.          *)
(*   SpecLegacy  the older class, src/wordle.py, whose make_guess appends  *)
(*               without validating.                                       *)
(*   SpecGrade   grade_guess applied to 5-letter words, for the claims     *)
(*               about the grading function alone.                         *)
(*   SpecPure    make_guess and grade_guess called in any order.           *)
(*   SpecPlay    the play() loop alone; SpecPlayFair adds the fairness of  *)
(*               a player who keeps answering the prompt.                  *)
(*   SpecColorize  the legacy colorize next to grade_guess, on one word.   *)
(*                                                                         *)
(* A word is a sequence of one-character strings.  Python's None is the    *)
(* empty sequence where an optional argument is modelled (an optional      *)
(* value is <<>> or <<v>>), and the string "None" for a return value.      *)
(***************************************************************************)
EXTENDS Integers, Sequences, FiniteSets, TLC

VARIABLES
    _answer,              \* self._answer
    _guesses,             \* self._guesses
    _max_guess_attempts,  \* self._max_guess_attempts
    ctor,                 \* the arguments __init__ was called with
    pc,                   \* where play() stands; "idle" before play() is called
    guess,                \* play()'s local variable guess
    last,                 \* the latest make_guess call: its argument and return value
    outcome,              \* what play() printed at its end: "won", "lost" or "none"
    grade_input,          \* the argument of the latest grade_guess call
    letter_data,          \* the list the latest grade_guess call returned
    colored_letters       \* the list the latest legacy colorize call returned

vars == <<_answer, _guesses, _max_guess_attempts, ctor, pc, guess, last, outcome,
          grade_input, letter_data, colored_letters>>

\* ------------------------------------------------------------------ bounds

\* The largest max_guess_attempts passed explicitly to the constructor.
MaxAttemptsArg == 2

\* The legacy make_guess never refuses: the model stops calling it at this length.
MaxHistory == 3

\* ------------------------------------------------------- program constants

DefaultMaxAttempts == 6

WordLen == 5

None == <<>>

_alphabet ==
    <<"A", "B", "C", "D", "E", "F", "G", "H", "I", "J", "K", "L", "M",
      "N", "O", "P", "Q", "R", "S", "T", "U", "V", "W", "X", "Y", "Z">>

\* ------------------------------------------------------------ str helpers

LowerCase ==
    <<"a", "b", "c", "d", "e", "f", "g", "h", "i", "j", "k", "l", "m",
      "n", "o", "p", "q", "r", "s", "t", "u", "v", "w", "x", "y", "z">>

\* str.upper() on one character: a lower-case letter becomes its capital,
\* every other character is kept.
UpperChar(c) ==
    IF \E i \in 1..Len(LowerCase) : LowerCase[i] = c
    THEN _alphabet[CHOOSE i \in 1..Len(LowerCase) : LowerCase[i] = c]
    ELSE c

\* str.upper()
Upper(s) == [i \in 1..Len(s) |-> UpperChar(s[i])]

\* x in list
InSeq(x, s) == \E i \in 1..Len(s) : s[i] = x

\* ------------------------------------------------------------- word lists

CRANE == <<"C", "R", "A", "N", "E">>
ALLOW == <<"A", "L", "L", "O", "W">>
TRACE == <<"T", "R", "A", "C", "E">>
LLAMA == <<"L", "L", "A", "M", "A">>
ZZZZZ == <<"Z", "Z", "Z", "Z", "Z">>
CRAN  == <<"C", "R", "A", "N">>
EXIT  == <<"E", "X", "I", "T">>
QUIT  == <<"Q", "U", "I", "T">>
crane == <<"c", "r", "a", "n", "e">>
Trace == <<"T", "r", "a", "c", "e">>
quit  == <<"q", "u", "i", "t">>

\* answers.txt, upper-cased
_words == <<CRANE, ALLOW>>

dictionary_without_answers == <<TRACE>>

\* guesses.txt, upper-cased, followed by the answers
_dictionary == <<TRACE>> \o _words

\* What a caller or a player can type.
Inputs == {CRANE, ALLOW, crane, Trace, ZZZZZ, CRAN, EXIT, quit}

\* Constructor arguments.
CtorGuesses == {None, <<<<crane>>>>, <<<<ZZZZZ>>>>, <<<<TRACE, ALLOW>>>>}

CtorMaxAttempts == {None} \cup {<<n>> : n \in 0..MaxAttemptsArg}

CtorAnswers == {None, <<crane>>, <<ZZZZZ>>, <<CRAN>>}

\* ------------------------------------------------------------ properties

completed_gt == Len(_guesses) > _max_guess_attempts

completed == Len(_guesses) >= _max_guess_attempts

winner == InSeq(_answer, _guesses)

validate_guess_any_time(g) == InSeq(g, _dictionary)

validate_guess(g) == (~completed) /\ InSeq(g, _dictionary)

\* ------------------------------------------- used_letters, unused_letters

add_letter_always(used, letter) == Append(used, letter)

\* if letter not in used: used.append(letter)
add_letter(used, letter) == IF InSeq(letter, used) THEN used ELSE Append(used, letter)

\* for letter in guess, from index j on
RECURSIVE used_in_guess(_, _, _)
used_in_guess(g, j, used) ==
    IF j > Len(g) THEN used
    ELSE used_in_guess(g, j + 1, add_letter(used, g[j]))

\* for guess in guesses, from index i on
RECURSIVE used_from(_, _, _)
used_from(guesses, i, used) ==
    IF i > Len(guesses) THEN used
    ELSE used_from(guesses, i + 1, used_in_guess(guesses[i], 1, used))

\* The used_letters property of a game whose history is guesses.
used_letters_of(guesses) == used_from(guesses, 1, <<>>)

used_letters == used_letters_of(_guesses)

unused_letters == SelectSeq(_alphabet, LAMBDA l : ~InSeq(l, used_letters))

\* --------------------------------------------------------------- __init__

answer_accepted_unchecked(a) == a # None

\* answer is not None and len(answer) == 5 and answer.upper() in self._words
answer_accepted(a) ==
    /\ a # None
    /\ Len(a[1]) = WordLen
    /\ InSeq(Upper(a[1]), _words)

Init ==
    /\ ctor \in [guesses : CtorGuesses, max_guess_attempts : CtorMaxAttempts,
                 answer : CtorAnswers]
    /\ _guesses = IF ctor.guesses # None
                  THEN [i \in 1..Len(ctor.guesses[1]) |-> Upper(ctor.guesses[1][i])]
                  ELSE <<>>
    /\ _max_guess_attempts = IF ctor.max_guess_attempts # None
                             THEN ctor.max_guess_attempts[1]
                             ELSE DefaultMaxAttempts
    /\ IF answer_accepted(ctor.answer)
       THEN _answer = Upper(ctor.answer[1])
       ELSE \E i \in 1..Len(_words) : _answer = _words[i]
    /\ pc = "idle"
    /\ guess = None
    /\ last = [arg |-> None, ret |-> "None"]
    /\ outcome = "none"
    /\ grade_input = None
    /\ letter_data = None
    /\ colored_letters = None

\* ------------------------------------------------------------- make_guess

make_guess_no_upper(g) ==
    IF validate_guess(g)
    THEN /\ _guesses' = Append(_guesses, g)
         /\ last' = [arg |-> g, ret |-> "True"]
    ELSE /\ _guesses' = _guesses
         /\ last' = [arg |-> g, ret |-> "False"]

make_guess(g) ==
    LET u == Upper(g) IN
    IF validate_guess(u)
    THEN /\ _guesses' = Append(_guesses, u)
         /\ last' = [arg |-> g, ret |-> "True"]
    ELSE /\ _guesses' = _guesses
         /\ last' = [arg |-> g, ret |-> "False"]

\* A caller calls make_guess on the object, outside play().
MakeGuess ==
    /\ pc = "idle"
    /\ \E g \in Inputs : make_guess(g)
    /\ UNCHANGED <<_answer, _max_guess_attempts, ctor, pc, guess, outcome,
                   grade_input, letter_data,
                   colored_letters>>

\* ------------------------------------------------------------------ play

report_lost_first == IF completed THEN "lost" ELSE "won"

\* The message play() ends with.
report == IF winner THEN "won" ELSE "lost"

\* play() is called on a game no make_guess call has been made on yet: a caller
\* either drives the object itself or hands it to play().
Play ==
    /\ pc = "idle"
    /\ last.ret = "None"
    /\ pc' = "loop"
    /\ UNCHANGED <<_answer, _guesses, _max_guess_attempts, ctor, guess, last,
                   outcome, grade_input, letter_data,
                   colored_letters>>

LoopEnter_ignores_winner ==
    /\ pc = "loop"
    /\ ~completed
    /\ pc' = "prompt"
    /\ UNCHANGED <<_answer, _guesses, _max_guess_attempts, ctor, guess, last,
                   outcome, grade_input, letter_data,
                   colored_letters>>

\* while not self.completed and not self.winner
LoopEnter ==
    /\ pc = "loop"
    /\ (~completed) /\ (~winner)
    /\ pc' = "prompt"
    /\ UNCHANGED <<_answer, _guesses, _max_guess_attempts, ctor, guess, last,
                   outcome, grade_input, letter_data,
                   colored_letters>>

LoopLeave ==
    /\ pc = "loop"
    /\ ~((~completed) /\ (~winner))
    /\ outcome' = report
    /\ pc' = "done"
    /\ UNCHANGED <<_answer, _guesses, _max_guess_attempts, ctor, guess, last,
                   grade_input, letter_data,
                   colored_letters>>

\* guess_prompt: the player types EXIT or QUIT
GuessPromptExit ==
    /\ pc = "prompt"
    /\ \E typed \in Inputs : Upper(typed) \in {EXIT, QUIT}
    /\ pc' = "exited"
    /\ UNCHANGED <<_answer, _guesses, _max_guess_attempts, ctor, guess, last,
                   outcome, grade_input, letter_data,
                   colored_letters>>

\* guess_prompt: the typed word is refused and guess_prompt calls itself
GuessPromptAgain ==
    /\ pc = "prompt"
    /\ \E typed \in Inputs :
          /\ Upper(typed) \notin {EXIT, QUIT}
          /\ ~validate_guess(Upper(typed))
    /\ UNCHANGED vars

GuessPromptReturn_unvalidated ==
    /\ pc = "prompt"
    /\ \E typed \in Inputs :
          /\ Upper(typed) \notin {EXIT, QUIT}
          /\ guess' = Upper(typed)
    /\ pc' = "make"
    /\ UNCHANGED <<_answer, _guesses, _max_guess_attempts, ctor, last,
                   outcome, grade_input, letter_data,
                   colored_letters>>

\* guess_prompt: the typed word is valid and returned, upper-cased
GuessPromptReturn ==
    /\ pc = "prompt"
    /\ \E typed \in Inputs :
          /\ Upper(typed) \notin {EXIT, QUIT}
          /\ validate_guess(Upper(typed))
          /\ guess' = Upper(typed)
    /\ pc' = "make"
    /\ UNCHANGED <<_answer, _guesses, _max_guess_attempts, ctor, last,
                   outcome, grade_input, letter_data,
                   colored_letters>>

\* self.make_guess(guess) in play()
PlayMakeGuess ==
    /\ pc = "make"
    /\ make_guess(guess)
    /\ pc' = "loop"
    /\ UNCHANGED <<_answer, _max_guess_attempts, ctor, guess, outcome,
                   grade_input, letter_data,
                   colored_letters>>

Next ==
    \/ MakeGuess
    \/ Play
    \/ LoopEnter
    \/ LoopLeave
    \/ GuessPromptExit
    \/ GuessPromptAgain
    \/ GuessPromptReturn
    \/ PlayMakeGuess

Spec == Init /\ [][Next]_vars

\* The game is handed to play() and only play() acts on it.
PlayNext ==
    \/ Play
    \/ LoopEnter
    \/ LoopLeave
    \/ GuessPromptExit
    \/ GuessPromptAgain
    \/ GuessPromptReturn
    \/ PlayMakeGuess

SpecPlay == Init /\ [][PlayNext]_vars

\* play() runs on: the interpreter takes the next step of the loop, and the
\* player, asked for a guess, at some point types a valid word unless they
\* leave with EXIT or QUIT.
PlayFairness ==
    /\ WF_vars(LoopEnter)
    /\ WF_vars(LoopLeave)
    /\ WF_vars(GuessPromptReturn)
    /\ WF_vars(PlayMakeGuess)

SpecPlayFair == Init /\ [][PlayNext]_vars /\ PlayFairness

\* ----------------------------------------------------------- grade_guess

\* Every character a word of the model is written in.
Chars == {_alphabet[i] : i \in 1..Len(_alphabet)} \cup {LowerCase[i] : i \in 1..Len(LowerCase)}

\* collections.Counter(s), read with Counter's default of 0 for a missing key
Counter(s) == [c \in Chars |-> Cardinality({i \in 1..Len(s) : s[i] = c})]

\* letter in string
InStr(c, s) == \E i \in 1..Len(s) : s[i] = c

RECURSIVE first_pass_no_decrement(_, _, _, _)
first_pass_no_decrement(input, i, ld, lc) ==
    IF i > Len(ld) THEN [letter_data |-> ld, letter_count |-> lc]
    ELSE IF input[i] = _answer[i]
         THEN first_pass_no_decrement(input, i + 1, [ld EXCEPT ![i] = <<input[i], 2>>], lc)
         ELSE first_pass_no_decrement(input, i + 1, ld, lc)

RECURSIVE first_pass_short(_, _, _, _)
first_pass_short(input, i, ld, lc) ==
    IF i >= Len(ld) THEN [letter_data |-> ld, letter_count |-> lc]
    ELSE IF input[i] = _answer[i]
         THEN first_pass_short(input, i + 1,
                               [ld EXCEPT ![i] = <<input[i], 2>>],
                               [lc EXCEPT ![input[i]] = @ - 1])
         ELSE first_pass_short(input, i + 1, ld, lc)

\* The first loop of grade_guess, from index i on: a true match is graded 2 and
\* uses up one occurrence of its letter.
RECURSIVE first_pass(_, _, _, _)
first_pass(input, i, ld, lc) ==
    IF i > Len(ld) THEN [letter_data |-> ld, letter_count |-> lc]
    ELSE IF input[i] = _answer[i]
         THEN first_pass(input, i + 1,
                         [ld EXCEPT ![i] = <<input[i], 2>>],
                         [lc EXCEPT ![input[i]] = @ - 1])
         ELSE first_pass(input, i + 1, ld, lc)

RECURSIVE second_pass_uncounted(_, _, _, _)
second_pass_uncounted(input, i, ld, lc) ==
    IF i > Len(ld) THEN ld
    ELSE IF InStr(input[i], _answer) /\ input[i] # _answer[i]
         THEN second_pass_uncounted(input, i + 1, [ld EXCEPT ![i] = <<input[i], 1>>], lc)
         ELSE IF ld[i] = None
              THEN second_pass_uncounted(input, i + 1, [ld EXCEPT ![i] = <<input[i], 0>>], lc)
              ELSE second_pass_uncounted(input, i + 1, ld, lc)

RECURSIVE second_pass_gt_one(_, _, _, _)
second_pass_gt_one(input, i, ld, lc) ==
    IF i > Len(ld) THEN ld
    ELSE IF InStr(input[i], _answer) /\ input[i] # _answer[i] /\ lc[input[i]] > 1
         THEN second_pass_gt_one(input, i + 1,
                                 [ld EXCEPT ![i] = <<input[i], 1>>],
                                 [lc EXCEPT ![input[i]] = @ - 1])
         ELSE IF ld[i] = None
              THEN second_pass_gt_one(input, i + 1, [ld EXCEPT ![i] = <<input[i], 0>>], lc)
              ELSE second_pass_gt_one(input, i + 1, ld, lc)

\* The second loop of grade_guess, from index i on: a letter of the answer at
\* another place is graded 1 while occurrences of it remain, what is still
\* ungraded is graded 0.
RECURSIVE second_pass(_, _, _, _)
second_pass(input, i, ld, lc) ==
    IF i > Len(ld) THEN ld
    ELSE IF InStr(input[i], _answer) /\ input[i] # _answer[i] /\ lc[input[i]] > 0
         THEN second_pass(input, i + 1,
                          [ld EXCEPT ![i] = <<input[i], 1>>],
                          [lc EXCEPT ![input[i]] = @ - 1])
         ELSE IF ld[i] = None
              THEN second_pass(input, i + 1, [ld EXCEPT ![i] = <<input[i], 0>>], lc)
              ELSE second_pass(input, i + 1, ld, lc)

\* grade_guess with the letter counts of the answer lessened by the latest guess.
grade_guess_carried(input) ==
    LET counts == IF _guesses = <<>>
                  THEN Counter(_answer)
                  ELSE [c \in Chars |->
                          Counter(_answer)[c] - Counter(_guesses[Len(_guesses)])[c]]
        p1 == first_pass(input, 1, [i \in 1..Len(input) |-> None], counts)
    IN  second_pass(input, 1, p1.letter_data, p1.letter_count)

grade_guess(input) ==
    LET p1 == first_pass(input, 1, [i \in 1..Len(input) |-> None], Counter(_answer))
    IN  second_pass(input, 1, p1.letter_data, p1.letter_count)

\* The letters the grading specification draws its words from, besides the
\* two worked examples.
GradeLetters == {"A", "L", "O"}

Words5(letters) == {w \in [1..WordLen -> letters] : TRUE}

GradeAnswers == Words5(GradeLetters) \cup {ALLOW, CRANE}

GradeWords == Words5(GradeLetters) \cup {LLAMA, TRACE}

\* A game whose answer is any 5-letter word.
GradeInit ==
    /\ _answer \in GradeAnswers
    /\ _guesses = <<>>
    /\ _max_guess_attempts = DefaultMaxAttempts
    /\ ctor = [guesses |-> None, max_guess_attempts |-> None, answer |-> None]
    /\ pc = "idle"
    /\ guess = None
    /\ last = [arg |-> None, ret |-> "None"]
    /\ outcome = "none"
    /\ grade_input = None
    /\ letter_data = None
    /\ colored_letters = None

\* grade_guess is called, once, with a 5-letter word.
GradeGuess ==
    /\ grade_input = None
    /\ \E w \in GradeWords :
          /\ grade_input' = w
          /\ letter_data' = grade_guess(w)
    /\ UNCHANGED <<_answer, _guesses, _max_guess_attempts, ctor, pc, guess, last,
                   outcome, colored_letters>>

GradeNext == GradeGuess

SpecGrade == GradeInit /\ [][GradeNext]_vars

\* ------------------------------------------------- legacy, src/wordle.py

\* The constructor of the legacy class: the answer is not length-checked.
LegacyInit ==
    /\ ctor \in [guesses : CtorGuesses, max_guess_attempts : CtorMaxAttempts,
                 answer : CtorAnswers]
    /\ _guesses = IF ctor.guesses # None
                  THEN [i \in 1..Len(ctor.guesses[1]) |-> Upper(ctor.guesses[1][i])]
                  ELSE <<>>
    /\ _max_guess_attempts = IF ctor.max_guess_attempts # None
                             THEN ctor.max_guess_attempts[1]
                             ELSE DefaultMaxAttempts
    /\ IF ctor.answer # None /\ InSeq(Upper(ctor.answer[1]), _words)
       THEN _answer = Upper(ctor.answer[1])
       ELSE \E i \in 1..Len(_words) : _answer = _words[i]
    /\ pc = "idle"
    /\ guess = None
    /\ last = [arg |-> None, ret |-> "None"]
    /\ outcome = "none"
    /\ grade_input = None
    /\ letter_data = None
    /\ colored_letters = None

\* The legacy validate_guess upper-cases its argument itself.
legacy_validate_guess(g) == (~completed) /\ InSeq(Upper(g), _dictionary)

\* The legacy make_guess appends whatever it is given and returns nothing.
legacy_make_guess(g) ==
    /\ _guesses' = Append(_guesses, Upper(g))
    /\ last' = [arg |-> g, ret |-> "None"]

LegacyMakeGuess ==
    /\ pc = "idle"
    /\ Len(_guesses) < MaxHistory
    /\ \E g \in Inputs : legacy_make_guess(g)
    /\ UNCHANGED <<_answer, _max_guess_attempts, ctor, pc, guess, outcome,
                   grade_input, letter_data,
                   colored_letters>>

LegacyPlay ==
    /\ pc = "idle"
    /\ last.arg = None
    /\ pc' = "loop"
    /\ UNCHANGED <<_answer, _guesses, _max_guess_attempts, ctor, guess, last,
                   outcome, grade_input, letter_data,
                   colored_letters>>

LegacyLoopEnter ==
    /\ pc = "loop"
    /\ (~completed) /\ (~winner)
    /\ pc' = "prompt"
    /\ UNCHANGED <<_answer, _guesses, _max_guess_attempts, ctor, guess, last,
                   outcome, grade_input, letter_data,
                   colored_letters>>

LegacyLoopLeave ==
    /\ pc = "loop"
    /\ ~((~completed) /\ (~winner))
    /\ outcome' = report
    /\ pc' = "done"
    /\ UNCHANGED <<_answer, _guesses, _max_guess_attempts, ctor, guess, last,
                   grade_input, letter_data,
                   colored_letters>>

LegacyGuessPromptExit ==
    /\ pc = "prompt"
    /\ \E typed \in Inputs : Upper(typed) \in {EXIT, QUIT}
    /\ pc' = "exited"
    /\ UNCHANGED <<_answer, _guesses, _max_guess_attempts, ctor, guess, last,
                   outcome, grade_input, letter_data,
                   colored_letters>>

LegacyGuessPromptAgain ==
    /\ pc = "prompt"
    /\ \E typed \in Inputs :
          /\ Upper(typed) \notin {EXIT, QUIT}
          /\ ~legacy_validate_guess(Upper(typed))
    /\ UNCHANGED vars

LegacyGuessPromptReturn ==
    /\ pc = "prompt"
    /\ \E typed \in Inputs :
          /\ Upper(typed) \notin {EXIT, QUIT}
          /\ legacy_validate_guess(Upper(typed))
          /\ guess' = Upper(typed)
    /\ pc' = "make"
    /\ UNCHANGED <<_answer, _guesses, _max_guess_attempts, ctor, last,
                   outcome, grade_input, letter_data,
                   colored_letters>>

LegacyPlayMakeGuess ==
    /\ pc = "make"
    /\ legacy_make_guess(guess)
    /\ pc' = "loop"
    /\ UNCHANGED <<_answer, _max_guess_attempts, ctor, guess, outcome,
                   grade_input, letter_data,
                   colored_letters>>

LegacyNext ==
    \/ LegacyMakeGuess
    \/ LegacyPlay
    \/ LegacyLoopEnter
    \/ LegacyLoopLeave
    \/ LegacyGuessPromptExit
    \/ LegacyGuessPromptAgain
    \/ LegacyGuessPromptReturn
    \/ LegacyPlayMakeGuess

SpecLegacy == LegacyInit /\ [][LegacyNext]_vars

\* ------------------------------- grade_guess between make_guess calls

\* The words grade_guess is called with while the game is played.
PureWords == {CRANE, ALLOW, TRACE, LLAMA}

\* A game with an explicit max_guess_attempts and a random answer.
PureInit ==
    /\ Init
    /\ ctor.max_guess_attempts # None
    /\ ctor.answer = None

\* grade_guess is called, at any time and any number of times.
GradeGuessAnyTime ==
    /\ pc = "idle"
    /\ \E w \in PureWords :
          /\ grade_input' = w
          /\ letter_data' = grade_guess(w)
    /\ UNCHANGED <<_answer, _guesses, _max_guess_attempts, ctor, pc, guess, last,
                   outcome, colored_letters>>

PureNext ==
    \/ MakeGuess
    \/ GradeGuessAnyTime

SpecPure == PureInit /\ [][PureNext]_vars


\* ------------------------------------------- legacy colorize, src/wordle.py

\* termcolor's colored(text, colour): the text paired with its colour.
colored(l, colour) == <<l, colour>>

\* get_colour
get_colour(grade) ==
    CASE grade = 0 -> "grey"
      [] grade = 1 -> "yellow"
      [] grade = 2 -> "green"
      [] OTHER     -> "grey"

\* colourize, of the packaged class: a graded list, coloured.
colourize(input) == [i \in 1..Len(input) |-> colored(input[i][1], get_colour(input[i][2]))]

colorize_position_only(input) ==
    IF _answer = None
    THEN None
    ELSE [i \in 1..WordLen |->
            IF input[i] = _answer[i]
            THEN colored(input[i], "green")
            ELSE colored(input[i], "grey")]

\* colorize, of the legacy class: one pass over the 5 positions.
colorize(input) ==
    IF _answer = None
    THEN None
    ELSE [i \in 1..WordLen |->
            IF InStr(input[i], _answer)
            THEN IF input[i] = _answer[i]
                 THEN colored(input[i], "green")
                 ELSE colored(input[i], "yellow")
            ELSE colored(input[i], "grey")]

\* The letters the answers of the colouring specification are made of, and
\* one more letter for its guesses.
ColorizeAnswerLetters == {"A", "C", "E", "R"}

ColorizeGuessLetters == ColorizeAnswerLetters \cup {"T"}

RACER == <<"R", "A", "C", "E", "R">>
EERIE == <<"E", "E", "R", "I", "E">>

NoRepeat(w) == \A i, j \in 1..Len(w) : w[i] = w[j] => i = j

ColorizeAnswers == Words5(ColorizeAnswerLetters) \cup {CRANE, TRACE}

\* Every 5-letter guess without a repeated letter over the guess letters, and
\* four guesses with one.
ColorizeWords ==
    {w \in Words5(ColorizeGuessLetters) : NoRepeat(w)} \cup {CRANE, RACER, EERIE, LLAMA, ALLOW}

\* A legacy game and a packaged game with the same answer, any 5-letter word.
ColorizeInit ==
    /\ _answer \in ColorizeAnswers
    /\ _guesses = <<>>
    /\ _max_guess_attempts = DefaultMaxAttempts
    /\ ctor = [guesses |-> None, max_guess_attempts |-> None, answer |-> None]
    /\ pc = "idle"
    /\ guess = None
    /\ last = [arg |-> None, ret |-> "None"]
    /\ outcome = "none"
    /\ grade_input = None
    /\ letter_data = None
    /\ colored_letters = None

\* The same word is graded by the packaged grade_guess and coloured by the
\* legacy colorize, once.
Colorize ==
    /\ grade_input = None
    /\ \E w \in ColorizeWords :
          /\ grade_input' = w
          /\ letter_data' = grade_guess(w)
          /\ colored_letters' = colorize(w)
    /\ UNCHANGED <<_answer, _guesses, _max_guess_attempts, ctor, pc, guess, last,
                   outcome>>

ColorizeNext == Colorize

SpecColorize == ColorizeInit /\ [][ColorizeNext]_vars

\* ================================================================= claims

\* A step in which make_guess was called and returned: it recorded its call
\* or grew the history.
CallStep == last' # last \/ _guesses' # _guesses

\* C1: in a completed game (the answer is in the history, or the history has
\* reached max_guess_attempts) make_guess fails for every word and leaves
\* the history unchanged.
C1_CompletedGameRejects ==
    [][(completed \/ winner) => _guesses' = _guesses]_vars

\* C2: in every reachable state completed is true if and only if
\* len(history) >= max_guess_attempts or the answer is in the history.
C2_CompletedIffWonOrLost ==
    completed <=> (Len(_guesses) >= _max_guess_attempts \/ InSeq(_answer, _guesses))

\* C2 (amended): completed is true if and only if len(history) >=
\* max_guess_attempts, whether or not the answer is in the history; play()
\* prompts only while neither completed nor winner holds and has ended only
\* when completed or winner holds.
C2_CompletedIffAttemptsExhausted ==
    /\ completed <=> (Len(_guesses) >= _max_guess_attempts)
    /\ pc \in {"prompt", "make"} => (~completed /\ ~winner)
    /\ pc = "done" => (completed \/ winner)

\* C2 witness: play() has ended on a win with attempts left, so the game is
\* Won while completed is false.
C2_Witness ==
    /\ pc = "done"
    /\ outcome = "won"
    /\ winner
    /\ ~completed
    /\ Len(_guesses) < _max_guess_attempts

\* C3: for every word whose upper-case form is not in the dictionary,
\* make_guess reports failure and leaves the history and the rest of the
\* game state unchanged.
C3_InvalidGuessRejected ==
    [][(CallStep /\ ~InSeq(Upper(last'.arg), _dictionary))
         => /\ last'.ret = "False"
            /\ UNCHANGED <<_guesses, _answer, _max_guess_attempts>>]_vars

\* C4: a successful make_guess(word) appends exactly the upper-case form of
\* word to the end of the history and keeps the earlier entries; a word in
\* lower or mixed case whose upper-case form is in the dictionary is accepted
\* (while attempts remain).
C4_AppendsUpper ==
    [][CallStep
         => /\ last'.ret = "True" => _guesses' = Append(_guesses, Upper(last'.arg))
            /\ last'.ret # "True" => _guesses' = _guesses
            /\ (~completed /\ InSeq(Upper(last'.arg), _dictionary))
                   => last'.ret = "True"]_vars

\* C4 witness: a lower-case word was accepted onto a history that already
\* had entries, and its upper-case form is the last entry.
C4_Witness ==
    /\ last.ret = "True"
    /\ last.arg = crane
    /\ Len(_guesses) >= 2
    /\ _guesses[Len(_guesses)] = CRANE
    /\ _guesses[1] = TRACE

\* A fresh game with N > 0 attempts has taken N guesses, none the answer.
C5_Pre ==
    /\ ctor.guesses = None
    /\ _max_guess_attempts > 0
    /\ Len(_guesses) = _max_guess_attempts
    /\ ~InSeq(_answer, _guesses)

\* C5: from a fresh game with max_guess_attempts = N > 0, after N accepted
\* guesses none of which is the answer, completed is true, winner is false
\* and no further guess is accepted.
C5_LostAfterMaxAttempts ==
    /\ [](C5_Pre => /\ completed
                    /\ ~winner
                    /\ \A w \in Inputs : ~validate_guess(Upper(w)))
    /\ [][C5_Pre => _guesses' = _guesses]_vars

\* C5 witness: the game is lost and a dictionary word has just been refused.
C5_Witness ==
    /\ C5_Pre
    /\ last.ret = "False"
    /\ InSeq(Upper(last.arg), _dictionary)

\* C6: an accepted guess that equals the answer makes winner true on any
\* attempt, the last allowed one included, and play() then reports a win,
\* not a loss.
C6_WonTakesPrecedence ==
    /\ [][(CallStep /\ last'.ret = "True" /\ Upper(last'.arg) = _answer)
            => winner']_vars
    /\ [](pc = "done" => (outcome = "won" <=> winner))

\* C6 witness: play() ended on a win made with the last allowed attempt.
C6_Witness ==
    /\ pc = "done"
    /\ outcome = "won"
    /\ completed
    /\ Len(_guesses) = _max_guess_attempts
    /\ Len(_guesses) >= 2
    /\ _guesses[Len(_guesses)] = _answer
    /\ \A i \in 1..(Len(_guesses) - 1) : _guesses[i] # _answer
    /\ last.ret = "True"

\* C7: in every reachable state, also of a game constructed from a prior
\* guess list and any max_guess_attempts, len(history) <= max_guess_attempts.
C7_HistoryWithinAttempts == Len(_guesses) <= _max_guess_attempts

\* C8: in every reachable state every entry of the history is a member of
\* the dictionary and has length 5, entries given to the constructor
\* included.
C8_HistoryValidated ==
    \A i \in 1..Len(_guesses) :
        InSeq(_guesses[i], _dictionary) /\ Len(_guesses[i]) = WordLen

\* The two-pass reference grading of the specification, on a sequence of
\* grades in which 3 stands for "not assigned yet".
RefMin(a, b) == IF a <= b THEN a ELSE b

RefCount(c, s) == Cardinality({i \in 1..Len(s) : s[i] = c})

RECURSIVE RefPass1(_, _, _, _, _)
RefPass1(word, answer, i, grades, remaining) ==
    IF i > WordLen THEN [grades |-> grades, remaining |-> remaining]
    ELSE IF word[i] = answer[i]
         THEN RefPass1(word, answer, i + 1, [grades EXCEPT ![i] = 2],
                       [remaining EXCEPT ![word[i]] = @ - 1])
         ELSE RefPass1(word, answer, i + 1, grades, remaining)

RECURSIVE RefPass2(_, _, _, _)
RefPass2(word, i, grades, remaining) ==
    IF i > WordLen THEN grades
    ELSE IF grades[i] # 3
         THEN RefPass2(word, i + 1, grades, remaining)
         ELSE IF remaining[word[i]] > 0
              THEN RefPass2(word, i + 1, [grades EXCEPT ![i] = 1],
                            [remaining EXCEPT ![word[i]] = @ - 1])
              ELSE RefPass2(word, i + 1, [grades EXCEPT ![i] = 0], remaining)

RefGrade(word, answer) ==
    LET p1 == RefPass1(word, answer, 1, [i \in 1..WordLen |-> 3],
                       [c \in Chars |-> RefCount(c, answer)])
    IN  RefPass2(word, 1, p1.grades, p1.remaining)

\* C9: for every 5-letter answer and word, grade_guess(word) has 5 entries,
\* each the letter word[i] paired with the grade the two-pass reference
\* algorithm of the specification gives position i.
C9_GradeMatchesReference ==
    grade_input # None
      => /\ Len(letter_data) = WordLen
         /\ \A i \in 1..WordLen :
               /\ letter_data[i] # None
               /\ letter_data[i][1] = grade_input[i]
               /\ letter_data[i][2] \in {0, 1, 2}
               /\ letter_data[i][2] = RefGrade(grade_input, _answer)[i]

\* C9 witness: a graded word with a true match, a partial match and a
\* letter of the answer graded 0 because its occurrences were used up.
C9_Witness ==
    /\ grade_input # None
    /\ \E i \in 1..WordLen : letter_data[i][2] = 2
    /\ \E i \in 1..WordLen : letter_data[i][2] = 1
    /\ \E i \in 1..WordLen :
          letter_data[i][2] = 0 /\ InStr(grade_input[i], _answer)

\* The positions of the graded word that hold letter c with grade 1 or 2.
Marked(c) == {i \in 1..Len(letter_data) : letter_data[i][1] = c /\ letter_data[i][2] \in {1, 2}}

\* C10: for every letter L the number of positions grade_guess grades
\* Correct or Present for L is at most min(count of L in word, count of L in
\* answer).
C10_LetterCountConservation ==
    grade_input # None
      => \A c \in Chars :
            Cardinality(Marked(c))
               <= RefMin(RefCount(c, grade_input), RefCount(c, _answer))

\* C10 witness: answer ALLOW, guess LLAMA: both L's are marked, one A of the
\* two is.
C10_Witness ==
    /\ _answer = ALLOW
    /\ grade_input = LLAMA
    /\ letter_data = << <<"L", 1>>, <<"L", 2>>, <<"A", 1>>, <<"M", 0>>, <<"A", 0>> >>

\* C11: if the word equals the answer, grade_guess grades each of the 5
\* positions 2 (Correct).
C11_AnswerAllCorrect ==
    (grade_input # None /\ grade_input = _answer)
      => /\ Len(letter_data) = WordLen
         /\ \A i \in 1..WordLen : letter_data[i] = <<_answer[i], 2>>

\* C11 witness: the answer itself, a word with a repeated letter, was graded.
C11_Witness ==
    /\ grade_input = <<"A", "L", "L", "O", "A">>
    /\ _answer = grade_input
    /\ letter_data # None

\* C13: with answer CRANE, grade_guess("TRACE") grades T, R, A, C, E as
\* 0, 2, 2, 1, 2.
C13_CraneTrace ==
    (_answer = CRANE /\ grade_input = TRACE)
      => letter_data = << <<"T", 0>>, <<"R", 2>>, <<"A", 2>>, <<"C", 1>>, <<"E", 2>> >>

\* C13 witness: TRACE was graded against the answer CRANE.
C13_Witness ==
    /\ _answer = CRANE
    /\ grade_input = TRACE
    /\ Len(letter_data) = WordLen

\* C12: grade_guess is a pure function of the word and the answer: a call
\* leaves the history, the answer and the rest of the game state unchanged,
\* needs no history entry for the word, and whatever make_guess calls follow
\* it, calling it again with the same word returns the identical result.
C12_GradePure ==
    /\ [](grade_input # None => letter_data = grade_guess(grade_input))
    /\ [][(<<grade_input, letter_data>>' # <<grade_input, letter_data>>)
            => UNCHANGED <<_answer, _guesses, _max_guess_attempts, last, pc,
                           guess, outcome>>]_vars

\* C12 witness: a word that is not in the history has been graded in a game
\* in which guesses were accepted.
C12_Witness ==
    /\ grade_input = LLAMA
    /\ letter_data # None
    /\ ctor.guesses = None
    /\ Len(_guesses) >= 2
    /\ last.ret = "True"

\* C14: validate_guess(word) is true if and only if the upper-case form of
\* word is in the dictionary, whatever the case of the argument and however
\* many guesses have been made.
C14_ValidateIffInDictionary ==
    \A w \in Inputs : validate_guess(w) <=> InSeq(Upper(w), _dictionary)

\* C14 (amended): validate_guess(word) is true if and only if fewer than
\* max_guess_attempts guesses have been made and the word is in the
\* dictionary: the word as given in the packaged class, whose callers
\* upper-case it first, and its upper-case form in the legacy class.
C14_ValidateWhileAttemptsRemain ==
    \A w \in Inputs :
        /\ validate_guess(w)
             <=> (Len(_guesses) < _max_guess_attempts /\ InSeq(w, _dictionary))
        /\ legacy_validate_guess(w)
             <=> (Len(_guesses) < _max_guess_attempts /\ InSeq(Upper(w), _dictionary))

\* C14 witness: the attempts are used up and a dictionary word, valid while
\* attempts remained, has been refused.
C14_Witness ==
    /\ Len(_guesses) >= 1
    /\ Len(_guesses) = _max_guess_attempts
    /\ last.ret = "False"
    /\ last.arg = CRANE
    /\ ~validate_guess(CRANE)
    /\ ~legacy_validate_guess(crane)

\* The letters that occur in some history entry.
HistoryLetters ==
    {_guesses[i][j] : <<i, j>> \in {p \in (1..Len(_guesses)) \X (1..WordLen) : p[2] <= Len(_guesses[p[1]])}}

\* The place of the first occurrence of letter c in the history, entries in
\* order of play and letters in order within an entry.
FirstPlace(c) ==
    LET places == {i * (WordLen + 1) + j : <<i, j>> \in
                     {p \in (1..Len(_guesses)) \X (1..WordLen) :
                          p[2] <= Len(_guesses[p[1]]) /\ _guesses[p[1]][p[2]] = c}}
    IN  CHOOSE m \in places : \A k \in places : m <= k

SeqSet(s) == {s[i] : i \in 1..Len(s)}

\* C15: used_letters lists exactly the distinct letters of the history, each
\* once, in order of first appearance; unused_letters lists exactly the other
\* letters of the alphabet in alphabetical order; the two are disjoint and
\* together cover A-Z; used_letters never loses a letter as guesses are
\* added.
C15_UsedAndUnusedLetters ==
    /\ [](LET u == used_letters
              n == unused_letters
          IN  /\ SeqSet(u) = HistoryLetters
              /\ \A i, j \in 1..Len(u) : i < j => FirstPlace(u[i]) < FirstPlace(u[j])
              /\ n = SelectSeq(_alphabet, LAMBDA l : l \notin HistoryLetters)
              /\ SeqSet(u) \cap SeqSet(n) = {}
              /\ SeqSet(_alphabet) \subseteq SeqSet(u) \cup SeqSet(n))
    /\ [][_guesses' # _guesses
            => SeqSet(used_letters_of(_guesses)) \subseteq SeqSet(used_letters_of(_guesses'))]_vars

\* C15 witness: three guesses that share letters have been made; the used
\* letters are T R A C E L O W N and 17 letters are unused.
C15_Witness ==
    /\ _guesses = <<TRACE, ALLOW, CRANE>>
    /\ used_letters = <<"T", "R", "A", "C", "E", "L", "O", "W", "N">>
    /\ Len(unused_letters) = 17
    /\ last.ret = "True"

\* The answer argument of the constructor is a string of length 5 whose
\* upper-case form is in the answers list.
C16_ValidArgument ==
    /\ ctor.answer # None
    /\ Len(ctor.answer[1]) = WordLen
    /\ \E i \in 1..Len(_words) : _words[i] = Upper(ctor.answer[1])

\* C16: the answer passed to the constructor is used, upper-cased, exactly
\* when it has length 5 and its upper-case form is in the answers list;
\* otherwise a member of the answers list is chosen; so the answer is always
\* a member of the answers list, and no operation changes it.
C16_AnswerFromList ==
    /\ [](C16_ValidArgument => _answer = Upper(ctor.answer[1]))
    /\ [](\E i \in 1..Len(_words) : _words[i] = _answer)
    /\ [][_answer' = _answer]_vars

\* C16 witness: a game constructed with answer "crane" plays against CRANE,
\* guesses having been made.
C16_Witness ==
    /\ ctor.answer = <<crane>>
    /\ _answer = CRANE
    /\ Len(_guesses) >= 2
    /\ last.ret = "True"

\* The history the constructor built from its guesses argument.
C17_InitialHistory ==
    IF ctor.guesses # None
    THEN [i \in 1..Len(ctor.guesses[1]) |-> Upper(ctor.guesses[1][i])]
    ELSE <<>>

\* The game was constructed already won or with its attempts used up.
C17_OverAtConstruction ==
    \/ \E i \in 1..Len(C17_InitialHistory) : C17_InitialHistory[i] = _answer
    \/ Len(C17_InitialHistory) >= _max_guess_attempts

\* C17: on a game constructed with a prior guess list that contains the
\* answer or has max_guess_attempts entries or more, play() prompts for no
\* guess, leaves the history as constructed, and reports a win when the
\* answer is in the history and a loss otherwise.
C17_OverGameNeverPrompts ==
    (C17_OverAtConstruction /\ pc # "idle")
      => /\ pc \in {"loop", "done"}
         /\ _guesses = C17_InitialHistory
         /\ guess = None
         /\ last.ret = "None"
         /\ pc = "done"
              => outcome = IF \E i \in 1..Len(C17_InitialHistory) :
                                  C17_InitialHistory[i] = _answer
                           THEN "won" ELSE "lost"

\* C17 witness: play() has ended with a loss on a game constructed with two
\* wrong guesses and two attempts.
C17_Witness ==
    /\ pc = "done"
    /\ outcome = "lost"
    /\ ctor.guesses = <<<<TRACE, ALLOW>>>>
    /\ _answer = CRANE
    /\ _max_guess_attempts = 2
    /\ _guesses = <<TRACE, ALLOW>>

\* The number of guesses play() can still take on the constructed game.
C18_AttemptsLeftAtStart ==
    IF _max_guess_attempts > Len(C17_InitialHistory)
    THEN _max_guess_attempts - Len(C17_InitialHistory)
    ELSE 0

C19_Winnable ==
    /\ [](Len(_guesses) < _max_guess_attempts => validate_guess(_answer))
    /\ [][(CallStep /\ Len(_guesses) < _max_guess_attempts
                    /\ Upper(last'.arg) = _answer)
            => (last'.ret = "True" /\ winner')]_vars
    /\ [][winner => winner']_vars

\* C19 witness: the answer was accepted as the second guess of a fresh game
\* and a further guess was made after it; winner still holds.
C19_Witness ==
    /\ ctor.guesses = None
    /\ Len(_guesses) = 3
    /\ _guesses[1] # _answer
    /\ _guesses[2] = _answer
    /\ _guesses[3] # _answer
    /\ winner
    /\ last.ret = "True"

\* C20: for every 5-letter answer and every 5-letter guess without a
\* repeated letter, the legacy single-pass colorize agrees position by
\* position with the two-pass grade_guess (green = 2, yellow = 1, grey = 0);
\* the two differ only on guesses with a repeated letter.
C20_ColorizeAgreesWithGrade ==
    /\ (grade_input # None /\ NoRepeat(grade_input))
          => /\ Len(colored_letters) = WordLen
             /\ colored_letters = colourize(letter_data)
    /\ (grade_input # None /\ colored_letters # colourize(letter_data))
          => ~NoRepeat(grade_input)

\* C20 witness: a guess without a repeated letter was coloured green, yellow
\* and grey at different positions, against an answer with a repeated letter.
C20_Witness ==
    /\ grade_input # None
    /\ NoRepeat(grade_input)
    /\ ~NoRepeat(_answer)
    /\ \E i \in 1..WordLen : colored_letters[i][2] = "green"
    /\ \E i \in 1..WordLen : colored_letters[i][2] = "yellow"
    /\ \E i \in 1..WordLen : colored_letters[i][2] = "grey"

====
